---- MODULE Spec2Model ----
(***************************************************************************)
(* Model of the historical market-bar synchronisation engine of TradeFlow  *)
(* (PolygonService: calendar, staleness check, chunked fetch, dedup write, *)
(* download jobs, bulk download orchestration) and of the two tables it    *)
(* works on, historical_data and download_jobs.                            *)
(*                                                                         *)
(* Instants are minutes since 1970-01-01T00:00 in the server's local time  *)
(* zone, which is UTC; a calendar day is a day number since 1970-01-01.    *)
(***************************************************************************)
EXTENDS Integers, Sequences, FiniteSets, Bags, TLC

\* ------------------------------------------------------------------------
\* JavaScript Date arithmetic (proleptic Gregorian calendar)
\* ------------------------------------------------------------------------

MinPerDay == 1440

\* day number of the civil date y-m-d, m in 1..12
DaysFromCivil(y, m, d) ==
  LET yy  == IF m <= 2 THEN y - 1 ELSE y
      era == yy \div 400
      yoe == yy - era * 400
      mp  == (m + 9) % 12
      doy == (153 * mp + 2) \div 5 + d - 1
      doe == yoe * 365 + yoe \div 4 - yoe \div 100 + doy
  IN  era * 146097 + doe - 719468

\* civil date [y, m, d] (m in 1..12) of a day number: from the era and the
\* day of the era (doe) to the year of the era (yoe), the day of the year
\* counted from 1 March (doy) and the month counted from March (mp)
CivilFromMp(era, yoe, doy, mp) ==
  [y |-> yoe + era * 400 + (IF mp >= 10 THEN 1 ELSE 0),
   m |-> IF mp < 10 THEN mp + 3 ELSE mp - 9,
   d |-> doy - (153 * mp + 2) \div 5 + 1]
CivilFromDoy(era, yoe, doy) == CivilFromMp(era, yoe, doy, (5 * doy + 2) \div 153)
CivilFromYoe(era, doe, yoe) ==
  CivilFromDoy(era, yoe, doe - (365 * yoe + yoe \div 4 - yoe \div 100))
CivilFromDoe(era, doe) ==
  CivilFromYoe(era, doe,
               (doe - doe \div 1460 + doe \div 36524 - doe \div 146096) \div 365)
CivilFromDays(z) == CivilFromDoe((z + 719468) \div 146097, (z + 719468) % 146097)

\* new Date(year, monthIndex, day): monthIndex is 0-based and, like day,
\* may lie outside its range; the result is the day number of local midnight
MakeDay(y, m0, d) == DaysFromCivil(y + m0 \div 12, (m0 % 12) + 1, 1) + d - 1

DayOf(inst)    == inst \div MinPerDay
MinuteOf(inst) == inst % MinPerDay
getFullYear(inst) == CivilFromDays(DayOf(inst)).y
getMonth(inst)    == CivilFromDays(DayOf(inst)).m - 1
getDate(inst)     == CivilFromDays(DayOf(inst)).d
getDay(inst)      == (DayOf(inst) + 4) % 7
getHours(inst)    == MinuteOf(inst) \div 60
getMinutes(inst)  == MinuteOf(inst) % 60

\* Date.prototype.setDate / setMonth / setFullYear / setHours, as functions
\* the instant at minute `minute` of the day new Date(y, m0, d)
MakeInstant(y, m0, d, minute) == MakeDay(y, m0, d) * MinPerDay + minute
withDate(civil, minute, d)  == MakeInstant(civil.y, civil.m - 1, d, minute)
withMonth(civil, minute, m0) == MakeInstant(civil.y, m0, civil.d, minute)
withYear(civil, minute, y)  == MakeInstant(y, civil.m - 1, civil.d, minute)
setDate(inst, d)     == withDate(CivilFromDays(DayOf(inst)), MinuteOf(inst), d)
setMonth(inst, m0)   == withMonth(CivilFromDays(DayOf(inst)), MinuteOf(inst), m0)
setFullYear(inst, y) == withYear(CivilFromDays(DayOf(inst)), MinuteOf(inst), y)
setHours(inst, h) == DayOf(inst) * MinPerDay + h * 60

Min(a, b) == IF a <= b THEN a ELSE b
Max(a, b) == IF a >= b THEN a ELSE b

\* toISOString().split('T')[0]: the UTC calendar day of an instant
toISODate(inst) == DayOf(inst)

\* the n-th Sunday (n >= 1) of month m (1..12) of year y, as a day number
SundayFrom(first, n) == first + ((7 - ((first + 4) % 7)) % 7) + 7 * (n - 1)
NthSunday(y, m, n) == SundayFrom(DaysFromCivil(y, m, 1), n)

\* offset of America/New_York from UTC in minutes: daylight time runs from
\* the second Sunday of March 07:00 UTC to the first Sunday of November 06:00 UTC
EasternOffsetIn(y, inst) ==
  IF /\ inst >= NthSunday(y, 3, 2) * MinPerDay + 7 * 60
     /\ inst < NthSunday(y, 11, 1) * MinPerDay + 6 * 60
  THEN 240 ELSE 300
EasternOffset(inst) == EasternOffsetIn(getFullYear(inst), inst)

\* new Date(now.toLocaleString("en-US", {timeZone: "America/New_York"})):
\* the instant whose local fields show New York's wall clock
toEastern(inst) == inst - EasternOffset(inst)

\* ------------------------------------------------------------------------
\* Calendar (PolygonService.isMarketOpen, getMostRecentMarketClose)
\* ------------------------------------------------------------------------

\* isMarketOpenEt without the weekend check
isMarketOpenAnyDay(et) ==
  LET currentMinutes == getHours(et) * 60 + getMinutes(et)
      marketOpen     == 9 * 60 + 30
      marketClose    == 16 * 60
  IN  currentMinutes >= marketOpen /\ currentMinutes <= marketClose

\* isMarketOpen(), from `et`
isMarketOpenEt(et) ==
  LET day            == getDay(et)
      currentMinutes == getHours(et) * 60 + getMinutes(et)
      marketOpen     == 9 * 60 + 30
      marketClose    == 16 * 60
  IN  IF day = 0 \/ day = 6 THEN FALSE
      ELSE currentMinutes >= marketOpen /\ currentMinutes <= marketClose

\* isMarketOpen() evaluated at the instant t
isMarketOpen(t) == isMarketOpenEt(toEastern(t))

\* the while loop of getMostRecentMarketClose: step back over Sat/Sun
RECURSIVE SkipWeekend(_)
SkipWeekend(inst) ==
  IF getDay(inst) = 0 \/ getDay(inst) = 6
  THEN SkipWeekend(setDate(inst, getDate(inst) - 1))
  ELSE inst

\* marketCloseEt without the loop that steps back over Saturday and Sunday
marketCloseNoSkip(et) ==
  LET day  == getDay(et)
      hour == getHours(et)
  IN  setHours(IF day >= 1 /\ day <= 5 /\ hour >= 16
               THEN et
               ELSE setDate(et, getDate(et) - 1), 16)

\* marketCloseEt that uses today on every weekday, whatever the hour
marketCloseToday(et) ==
  LET day == getDay(et)
  IN  setHours(SkipWeekend(IF day >= 1 /\ day <= 5
                           THEN et
                           ELSE setDate(et, getDate(et) - 1)), 16)

\* getMostRecentMarketClose(), from `et`
marketCloseEt(et) ==
  LET day  == getDay(et)
      hour == getHours(et)
  IN  setHours(SkipWeekend(IF day >= 1 /\ day <= 5 /\ hour >= 16
                           THEN et
                           ELSE setDate(et, getDate(et) - 1)), 16)

\* getMostRecentMarketClose() evaluated at the instant t
getMostRecentMarketClose(t) == marketCloseEt(toEastern(t))

\* ------------------------------------------------------------------------
\* Bulk download: range, partitions, expected records
\* ------------------------------------------------------------------------

\* calculateStartDate(endDate, period)
calculateStartDate(endDate, period) ==
  CASE period = "1M"  -> setMonth(endDate, getMonth(endDate) - 1)
    [] period = "3M"  -> setMonth(endDate, getMonth(endDate) - 3)
    [] period = "6M"  -> setMonth(endDate, getMonth(endDate) - 6)
    [] period = "1Y"  -> setFullYear(endDate, getFullYear(endDate) - 1)
    [] period = "2Y"  -> setFullYear(endDate, getFullYear(endDate) - 2)
    [] period = "5Y"  -> setFullYear(endDate, getFullYear(endDate) - 5)
    [] period = "10Y" -> setFullYear(endDate, getFullYear(endDate) - 10)
    [] period = "MAX" -> setFullYear(endDate, 2010)
    [] OTHER          -> setFullYear(endDate, getFullYear(endDate) - 1)

\* getYearRange(startDate, endDate)
yearsFrom(currentYear, endYear) ==
  [k \in 1..(IF endYear >= currentYear THEN endYear - currentYear + 1 ELSE 0)
     |-> currentYear + k - 1]
getYearRange(startDate, endDate) ==
  yearsFrom(getFullYear(startDate), getFullYear(endDate))

NinetyDays == 90 * MinPerDay

\* the strategy test of downloadHistoricalData
\* parseTimeframe(timeframe).timespan; an unknown timeframe maps to minute
timespanOf(timeframe) ==
  CASE timeframe \in {"1M", "5M", "15M", "30M"} -> "minute"
    [] timeframe = "1H" -> "hour"
    [] timeframe = "1D" -> "day"
    [] OTHER -> "minute"

useMonthly(timeframe, startDate, endDate) ==
  timeframe = "1M" /\ (endDate - startDate) > NinetyDays

\* the months array of the monthly strategy: first days of the months from
\* startDate's month to endDate's month, as midnight instants
monthStartsOf(s, e) ==
  [k \in 1..Max(0, (e.y * 12 + e.m) - (s.y * 12 + s.m) + 1)
     |-> MakeDay(s.y, s.m - 1 + k - 1, 1) * MinPerDay]
monthStarts(startDate, endDate) ==
  monthStartsOf(CivilFromDays(DayOf(startDate)), CivilFromDays(DayOf(endDate)))

\* monthChunkOf whose range ends on the first day of the following month
monthChunkOverlap(civil, monthStart, endDate) ==
  [from |-> toISODate(monthStart),
   to |-> toISODate(Min(MakeDay(civil.y, civil.m, 1) * MinPerDay, endDate)),
   label |-> civil.y * 100 + civil.m]

\* the request range of one month: from = monthStart, to = min(monthEnd, endDate)
monthChunkOf(civil, monthStart, endDate) ==
  [from |-> toISODate(monthStart),
   to |-> toISODate(Min(MakeDay(civil.y, civil.m, 0) * MinPerDay, endDate)),
   label |-> civil.y * 100 + civil.m]
monthChunk(monthStart, endDate) ==
  monthChunkOf(CivilFromDays(DayOf(monthStart)), monthStart, endDate)

\* the request range of one year: clipped to [startDate, endDate]
yearChunk(year, startDate, endDate) ==
  [from |-> toISODate(Max(startDate, MakeDay(year, 0, 1) * MinPerDay)),
   to |-> toISODate(Min(endDate, MakeDay(year, 11, 31) * MinPerDay)),
   label |-> year]

\* the partitions downloadHistoricalData iterates over, in order
monthChunks(months, endDate) ==
  [k \in 1..Len(months) |-> monthChunk(months[k], endDate)]
yearChunks(years, startDate, endDate) ==
  [k \in 1..Len(years) |-> yearChunk(years[k], startDate, endDate)]
partitions(timeframe, startDate, endDate) ==
  IF useMonthly(timeframe, startDate, endDate)
  THEN monthChunks(monthStarts(startDate, endDate), endDate)
  ELSE yearChunks(getYearRange(startDate, endDate), startDate, endDate)

\* Math.ceil(a / b) for a >= 0, b > 0
CeilDiv(a, b) == (a + b - 1) \div b

Abs(a) == IF a < 0 THEN 0 - a ELSE a

marketDaysPerYear == 252

\* marketDaysIn with Math.floor in place of Math.ceil
marketDaysFloor(diffDays) == (diffDays * marketDaysPerYear) \div 365

\* calculateExpectedRecords(timeframe, period, startDate, endDate)
marketDaysIn(diffDays) == CeilDiv(diffDays * marketDaysPerYear, 365)
recordsFor(timeframe, marketDays) ==
      CASE timeframe = "1M"  -> marketDays * 390
        [] timeframe = "5M"  -> marketDays * 78
        [] timeframe = "15M" -> marketDays * 26
        [] timeframe = "30M" -> marketDays * 13
        [] timeframe = "1H"  -> marketDays * 7
        [] timeframe = "1D"  -> marketDays
        [] OTHER             -> marketDays * 100
calculateExpectedRecords(timeframe, startDate, endDate) ==
  recordsFor(timeframe, marketDaysIn(CeilDiv(Abs(endDate - startDate), MinPerDay)))

\* Math.round(a / b * 100) for a >= 0, b > 0 (round half up)
RoundPct(a, b) == (200 * a + b) \div (2 * b)

\* progressOf without Math.min(..., 100)
progressUnclamped(currentRecords, jobExpected) ==
  LET expectedRecords == IF jobExpected = 0 THEN 1 ELSE jobExpected
  IN  RoundPct(currentRecords, expectedRecords)

\* the percentage getDownloadProgress derives from a count and a job row
progressOf(currentRecords, jobExpected) ==
  LET expectedRecords == IF jobExpected = 0 THEN 1 ELSE jobExpected
  IN  Min(RoundPct(currentRecords, expectedRecords), 100)

\* the completion test of getDownloadProgress
isComplete(currentRecords, jobExpected) ==
  LET expectedRecords == IF jobExpected = 0 THEN 1 ELSE jobExpected
  IN  currentRecords >= expectedRecords \/ progressOf(currentRecords, jobExpected) >= 100

\* symbol.toUpperCase() over the symbols of the model
toUpperCase(s) == IF s = "spy" THEN "SPY" ELSE s

\* ------------------------------------------------------------------------
\* Bounds and input sets
\* ------------------------------------------------------------------------

\* most partitions of a bulk download the model admits
MaxChunks == 4
\* most candles in one provider response
MaxPage == 1
\* most responses the provider needs to deliver one range (pages per range)
MaxPages == 2
\* most candles the provider delivers for one range in total
MaxResults == 2

At(y, m, d, h, mi) == DaysFromCivil(y, m, d) * MinPerDay + h * 60 + mi

\* the clock readings of the model: a Saturday and a Wednesday 11:00 New York
\* time (session open)
Nows == {At(2025, 8, 16, 15, 0), At(2025, 8, 13, 15, 0)}

\* a clock standing on a Saturday of the year the period MAX starts from
NowIn2010 == At(2010, 6, 5, 12, 0)

Calls    == {"d1", "d2"}
Pollers  == {"p1"}
RawSymbols == {"spy", "SPY"}
Periods    == {"1M", "3M", "1Y", "MAX"}
Timeframes == {"1M", "1D"}

\* provider prices, in thousandths of a dollar
Prices == {100004, 100010}

\* Number.prototype.toFixed(2): a price rounded to cents
toFixed2(price) == (price + 5) \div 10

None == 0

VARIABLES
  now,             \* the clock reading
  historicalData,  \* table historical_data: a bag of rows
  downloadJobs,    \* table download_jobs: rows in insertion order, id = index
  dl,              \* the downloadHistoricalData calls
  poll,            \* the getDownloadProgress callers
  sync,            \* the POST /api/sync-ticker request
  cancelled        \* calls whose client pressed Cancel

vars == <<now, historicalData, downloadJobs, dl, poll, sync, cancelled>>

\* timestamps of the bars the provider can deliver: three days and one hour
\* before the clock reading
BarTimes == {now - 3 * MinPerDay, now - 60}

\* the candles the provider can deliver: the earlier bar with either price,
\* the later bar with one
Candles == {k \in [t : BarTimes, c : Prices] : k.t = now - 60 => k.c = 100004}

\* the candles at the first price
CandlesAtOnePrice == {k \in Candles : k.c = 100004}

\* provider result arrays of at most n of the candles cs
RECURSIVE PagesOf(_, _)
PagesOf(cs, n) ==
  IF n = 0 THEN {<<>>}
  ELSE PagesOf(cs, n - 1)
         \cup {Append(p, k) : p \in {q \in PagesOf(cs, n - 1) : Len(q) = n - 1}, k \in cs}

\* provider result arrays of at most n candles
Pages(n) == PagesOf(Candles, n)

\* rows stored by an earlier, finished download of 25 daily bars
PriorBars ==
  LET row(k) == [symbol |-> "SPY", timestamp |-> now - (400 + k) * MinPerDay,
                 close |-> toFixed2(100004), timeframe |-> "1D"]
  IN  [r \in {row(k) : k \in 1..25} |-> 1]

\* ------------------------------------------------------------------------
\* Table historical_data
\* ------------------------------------------------------------------------

Key(row) == <<row.symbol, row.timestamp, row.timeframe>>

Rows == BagToSet(historicalData)

\* formatCandleForDB(candle, symbol, timeframe)
formatCandleForDB(candle, symbol, timeframe) ==
  [symbol |-> symbol, timestamp |-> candle.t, close |-> toFixed2(candle.c),
   timeframe |-> timeframe]

\* insertRow without the uniqueness constraint: every row is added
insertRowAlways(table, row) == table (+) SetToBag({row})

\* insertRow with onConflictDoUpdate: the stored row is replaced
insertRowUpsert(table, row) ==
  LET kept == {r \in BagToSet(table) : Key(r) # Key(row)}
  IN  [r \in kept |-> table[r]] (+) SetToBag({row})

\* unique(symbol, timestamp, timeframe) with onConflictDoNothing: one row
insertRow(table, row) ==
  IF \E r \in BagToSet(table) : Key(r) = Key(row)
  THEN table
  ELSE table (+) SetToBag({row})

\* insertValues as a plain insert: a conflicting row fails the statement and
\* none of its rows is stored
insertValuesOrFail(table, chunk) ==
  IF \E k \in 1..Len(chunk) : \E r \in BagToSet(table) : Key(r) = Key(chunk[k])
  THEN table
  ELSE table (+) SetToBag({chunk[k] : k \in 1..Len(chunk)})

\* db.insert(historicalData).values(chunk).onConflictDoNothing()
RECURSIVE insertValues(_, _)
insertValues(table, chunk) ==
  IF chunk = <<>> THEN table
  ELSE insertValues(insertRow(table, Head(chunk)), Tail(chunk))

\* select timestamp from a table where symbol = s and timeframe = tf
timestampsIn(table, s, tf) ==
  {r.timestamp : r \in {x \in BagToSet(table) : x.symbol = s /\ x.timeframe = tf}}

timestampsOf(s, tf) == timestampsIn(historicalData, s, tf)

\* countOf without the timeframe condition
countOfSymbol(s, tf) ==
  LET sel == {x \in Rows : x.symbol = s}
  IN  BagCardinality([r \in sel |-> historicalData[r]])

\* select count(*) where symbol = s and timeframe = tf
countOf(s, tf) ==
  LET sel == {x \in Rows : x.symbol = s /\ x.timeframe = tf}
  IN  BagCardinality([r \in sel |-> historicalData[r]])

\* filterNew with the test inverted: the stored candles are kept
RECURSIVE filterStored(_, _)
filterStored(candles, existingTimestamps) ==
  IF candles = <<>> THEN <<>>
  ELSE IF Head(candles).t \in existingTimestamps
       THEN <<Head(candles)>> \o filterStored(Tail(candles), existingTimestamps)
       ELSE filterStored(Tail(candles), existingTimestamps)

\* candles.filter(candle => !existingTimestamps.has(candle.t))
RECURSIVE filterNew(_, _)
filterNew(candles, existingTimestamps) ==
  IF candles = <<>> THEN <<>>
  ELSE IF Head(candles).t \in existingTimestamps
       THEN filterNew(Tail(candles), existingTimestamps)
       ELSE <<Head(candles)>> \o filterNew(Tail(candles), existingTimestamps)

\* candles.map(candle => formatCandleForDB(candle, symbol, timeframe))
formatAll(candles, symbol, timeframe) ==
  [k \in 1..Len(candles) |-> formatCandleForDB(candles[k], symbol, timeframe)]

\* rows per insert statement (chunkSize)
chunkSize == 1000

\* formattedData.slice(i, i + chunkSize), i 0-based
slice(data, i) == SubSeq(data, i + 1, Min(i + chunkSize, Len(data)))

\* ------------------------------------------------------------------------
\* Table download_jobs
\* ------------------------------------------------------------------------

JobIds == 1..Len(downloadJobs)

\* where symbol = s and timeframe = tf and period = p and status = in_progress
activeJobs(s, tf, p) ==
  {j \in JobIds : /\ downloadJobs[j].symbol = s
                  /\ downloadJobs[j].timeframe = tf
                  /\ downloadJobs[j].period = p
                  /\ downloadJobs[j].status = "in_progress"}

\* where symbol = s and status = in_progress
activeJobsOfSymbol(s) ==
  {j \in JobIds : downloadJobs[j].symbol = s /\ downloadJobs[j].status = "in_progress"}

\* error_message is null
NoMessage == ""

\* the messages a failure can carry
Messages == {"Polygon API error: 500"}

\* the row createDownloadJob inserts
newJob(symbol, timeframe, period, startDate, endDate) ==
  [symbol |-> toUpperCase(symbol), timeframe |-> timeframe, period |-> period,
   status |-> "in_progress", startDate |-> startDate, endDate |-> endDate,
   expectedRecords |-> calculateExpectedRecords(timeframe, startDate, endDate),
   currentRecords |-> 0, progressPercentage |-> 0, errorMessage |-> NoMessage]

\* update ... set status = 'completed', progressPercentage = "100" where id = j
markCompleted(jobs, j) ==
  [jobs EXCEPT ![j].status = "completed", ![j].progressPercentage = 100]

\* setProgress that also writes the status the poll selected (in_progress)
setProgressAndStatus(jobs, j, currentRecords, percentage) ==
  [jobs EXCEPT ![j].currentRecords = currentRecords,
               ![j].progressPercentage = percentage,
               ![j].status = "in_progress"]

\* update ... set currentRecords, progressPercentage where id = j
setProgress(jobs, j, currentRecords, percentage) ==
  [jobs EXCEPT ![j].currentRecords = currentRecords,
               ![j].progressPercentage = percentage]

\* ------------------------------------------------------------------------
\* downloadHistoricalData
\* ------------------------------------------------------------------------

maxRequests == 50

\* the provider delivers a range in at most MaxPages responses: the response
\* to request number requestCount has a next_url only below that
withinPages(requestCount, hasNext) == hasNext => requestCount < MaxPages

\* no provider response is waiting to be handled
NoResponse == [ok |-> TRUE, status |-> "", results |-> <<>>, hasNext |-> FALSE]

\* the responses of the provider to one request: an HTTP failure, or a body
\* with a status, results and possibly a next_url
Responses(requestCount) ==
  {[ok |-> FALSE, status |-> "", results |-> <<>>, hasNext |-> FALSE]}
    \cup {r \in [ok : {TRUE}, status : {"OK", "DELAYED", "ERROR"},
                  results : Pages(MaxPage), hasNext : BOOLEAN] :
            withinPages(requestCount, r.hasNext)}

\* the last call of progressCallback(progress, label): progress is
\* progress / outOf percent; outOf = 0 while it was never called
NoCallback == [progress |-> 0, outOf |-> 0, label |-> None]

IdleCall ==
  [pc |-> "idle", symbol |-> "", period |-> "", timeframe |-> "",
   response |-> NoResponse, callback |-> NoCallback,
   startDate |-> 0, endDate |-> 0, monthly |-> FALSE, chunks |-> <<>>,
   jobId |-> None, isExisting |-> FALSE,
   processed |-> 0, requestCount |-> 0, allResults |-> <<>>,
   formattedData |-> <<>>, i |-> 0, hadError |-> FALSE]

\* the call state at the top of an iteration
iterationStart(call, processed) ==
  [call EXCEPT !.pc = "fetch", !.processed = processed,
               !.requestCount = 1, !.allResults = <<>>,
               !.formattedData = <<>>, !.i = 0]

\* the call state after the loop: progressCallback(100)
loopEnd(call, processed) ==
  [call EXCEPT !.pc = "final", !.processed = processed,
               !.requestCount = 0, !.allResults = <<>>,
               !.formattedData = <<>>, !.i = 0,
               !.callback = [progress |-> 100, outOf |-> 1, label |-> None]]

\* nextIteration with the progress callback at the end of the loop body: it
\* names the partition that was just processed
nextIterationAfter(call, processed, total) ==
  IF processed < total
  THEN [iterationStart(call, processed) EXCEPT
          !.callback = IF processed = 0 THEN NoCallback
                       ELSE [progress |-> 100 * processed, outOf |-> total,
                             label |-> call.chunks[processed].label]]
  ELSE loopEnd(call, processed)

\* the call's state when the loop reaches the top of the next iteration, or
\* leaves the loop, after `processed` partitions: progressCallback is called
\* with the partition that starts, and the next request is issued
nextIteration(call, processed, total) ==
  IF processed < total
  THEN [iterationStart(call, processed) EXCEPT
          !.callback = [progress |-> 100 * processed, outOf |-> total,
                        label |-> call.chunks[processed + 1].label]]
  ELSE loopEnd(call, processed)

\* processedMonths++ / processedYears++ and what follows it: the monthly
\* loop waits 200 ms while months remain, the yearly loop goes straight on
chunkDone(call, total) ==
  IF call.monthly /\ call.processed + 1 < total
  THEN [call EXCEPT !.pc = "chunkDelay", !.processed = call.processed + 1,
                    !.requestCount = 0, !.allResults = <<>>,
                    !.formattedData = <<>>, !.i = 0]
  ELSE nextIteration(call, call.processed + 1, total)

\* fetchBars returned `data` to the loop body
fetchReturned(call, total) ==
  IF Len(call.allResults) > 0
  THEN [call EXCEPT !.pc = "saveSelect"]
  ELSE chunkDone(call, total)

\* the range of a download requested at the instant t
endDateAt(t) == IF isMarketOpen(t) THEN getMostRecentMarketClose(t) ELSE t

\* the call's state once range, strategy and months or years are computed
beginCall(symbol, period, timeframe, startDate, endDate, chunks) ==
  [IdleCall EXCEPT !.pc = "select", !.symbol = symbol, !.period = period,
                   !.timeframe = timeframe, !.startDate = startDate,
                   !.endDate = endDate,
                   !.monthly = useMonthly(timeframe, startDate, endDate),
                   !.chunks = chunks]

startRange(c, symbol, period, timeframe, startDate, endDate) ==
  dl' = [dl EXCEPT ![c] = beginCall(symbol, period, timeframe, startDate, endDate,
                                    partitions(timeframe, startDate, endDate))]

startWith(c, symbol, period, timeframe, endDate) ==
  startRange(c, symbol, period, timeframe, calculateStartDate(endDate, period), endDate)

\* POST /api/download-ticker: the route upper-cases the symbol and calls
\* downloadHistoricalData, which computes the range, the strategy (monthly or
\* yearly loop) and the months or years to iterate over
StartDownload(c, rawSymbol, period, timeframe) ==
  /\ dl[c].pc = "idle"
  /\ startWith(c, toUpperCase(rawSymbol), period, timeframe, endDateAt(now))
  /\ Len(dl'[c].chunks) <= MaxChunks
  /\ UNCHANGED <<now, historicalData, downloadJobs, poll, sync, cancelled>>

\* AttachExisting without the early return: the call attaches to the job and
\* runs the loop
AttachAndRun(c) ==
  /\ dl[c].pc = "select"
  /\ \E j \in activeJobs(toUpperCase(dl[c].symbol), dl[c].timeframe, dl[c].period) :
       dl' = [dl EXCEPT ![c] =
         nextIteration([dl[c] EXCEPT !.jobId = j, !.isExisting = TRUE], 0, Len(dl[c].chunks))]
  /\ UNCHANGED <<now, historicalData, downloadJobs, poll, sync, cancelled>>

\* createDownloadJob, select: an in_progress job with the same parameters
\* exists; downloadHistoricalData returns
AttachExisting(c) ==
  /\ dl[c].pc = "select"
  /\ \E j \in activeJobs(toUpperCase(dl[c].symbol), dl[c].timeframe, dl[c].period) :
       dl' = [dl EXCEPT ![c].pc = "done", ![c].jobId = j, ![c].isExisting = TRUE]
  /\ UNCHANGED <<now, historicalData, downloadJobs, poll, sync, cancelled>>

\* createDownloadJob, select: no such job
SelectNone(c) ==
  /\ dl[c].pc = "select"
  /\ activeJobs(toUpperCase(dl[c].symbol), dl[c].timeframe, dl[c].period) = {}
  /\ dl' = [dl EXCEPT ![c].pc = "insert"]
  /\ UNCHANGED <<now, historicalData, downloadJobs, poll, sync, cancelled>>

\* createDownloadJob, insert; the loop starts and issues the first request
InsertJob(c) ==
  /\ dl[c].pc = "insert"
  /\ downloadJobs' = Append(downloadJobs,
       newJob(dl[c].symbol, dl[c].timeframe, dl[c].period, dl[c].startDate, dl[c].endDate))
  /\ dl' = [dl EXCEPT ![c] =
       nextIteration([dl[c] EXCEPT !.jobId = Len(downloadJobs) + 1], 0, Len(dl[c].chunks))]
  /\ UNCHANGED <<now, historicalData, poll, sync, cancelled>>

\* FetchFail without the try/catch of the loop body: the error leaves the
\* loop and the job is marked failed
FetchAbort(c) ==
  /\ dl[c].pc = "fetch"
  /\ dl' = [dl EXCEPT ![c].pc = "done", ![c].hadError = TRUE]
  /\ downloadJobs' = [downloadJobs EXCEPT ![dl[c].jobId].status = "failed"]
  /\ UNCHANGED <<now, historicalData, poll, sync, cancelled>>

\* FetchFail whose catch block returns the pages accumulated so far
FetchFailPartial(c) ==
  /\ dl[c].pc = "fetch"
  /\ dl' = [dl EXCEPT ![c] =
       fetchReturned([dl[c] EXCEPT !.hadError = TRUE,
                                   !.response = NoResponse],
                     Len(dl[c].chunks))]
  /\ UNCHANGED <<now, historicalData, downloadJobs, poll, sync, cancelled>>

\* fetchBars: the response is an HTTP failure or has status ERROR; the error
\* is thrown to the loop body, which logs it and counts the partition
FetchFail(c) ==
  /\ dl[c].pc = "fetch"
  /\ dl' = [dl EXCEPT ![c] =
       chunkDone([dl[c] EXCEPT !.hadError = TRUE, !.allResults = <<>>,
                               !.response = NoResponse],
                 Len(dl[c].chunks))]
  /\ UNCHANGED <<now, historicalData, downloadJobs, poll, sync, cancelled>>

\* FetchPage that follows next_url at once, without the 100 ms wait
FetchPageNoDelay(c, results, hasNext) ==
  /\ dl[c].pc = "fetch"
  /\ Len(dl[c].allResults) + Len(results) <= MaxResults
  /\ LET call == [dl[c] EXCEPT !.allResults = dl[c].allResults \o results,
                              !.response = NoResponse]
     IN  dl' = [dl EXCEPT ![c] =
           IF hasNext /\ call.requestCount < maxRequests
           THEN [call EXCEPT !.requestCount = call.requestCount + 1]
           ELSE fetchReturned(call, Len(dl[c].chunks))]
  /\ UNCHANGED <<now, historicalData, downloadJobs, poll, sync, cancelled>>

\* fetchBars: a response with status OK or DELAYED, its results and next_url
FetchPage(c, results, hasNext) ==
  /\ dl[c].pc = "fetch"
  /\ Len(dl[c].allResults) + Len(results) <= MaxResults
  /\ LET call == [dl[c] EXCEPT !.allResults = dl[c].allResults \o results,
                              !.response = NoResponse]
     IN  dl' = [dl EXCEPT ![c] =
           IF hasNext THEN [call EXCEPT !.pc = "fetchDelay"]
           ELSE fetchReturned(call, Len(dl[c].chunks))]
  /\ UNCHANGED <<now, historicalData, downloadJobs, poll, sync, cancelled>>

\* the provider's response to the request in flight arrives
Arrive(c, response) ==
  /\ dl[c].pc = "fetch"
  /\ dl[c].response = NoResponse
  /\ response # NoResponse
  /\ dl' = [dl EXCEPT ![c].response = response]
  /\ UNCHANGED <<now, historicalData, downloadJobs, poll, sync, cancelled>>

\* HandleResponse that takes every status other than OK for an error
HandleOnlyOk(c) ==
  /\ dl[c].response # NoResponse
  /\ IF ~dl[c].response.ok \/ dl[c].response.status # "OK"
     THEN FetchFail(c)
     ELSE FetchPage(c, dl[c].response.results, dl[c].response.hasNext)

\* fetchBars handles the response that arrived: !response.ok or status ERROR
\* throw; DELAYED is logged and handled like OK
HandleResponse(c) ==
  /\ dl[c].response # NoResponse
  /\ IF ~dl[c].response.ok \/ dl[c].response.status = "ERROR"
     THEN FetchFail(c)
     ELSE FetchPage(c, dl[c].response.results, dl[c].response.hasNext)

\* FetchDelay with the loop condition `while (nextUrl)`: no request cap
FetchDelayNoCap(c) ==
  /\ dl[c].pc = "fetchDelay"
  /\ dl' = [dl EXCEPT ![c].pc = "fetch", ![c].requestCount = dl[c].requestCount + 1]
  /\ UNCHANGED <<now, historicalData, downloadJobs, poll, sync, cancelled>>

\* FetchDelay that throws when the cap stops the loop under a next_url
FetchDelayCapThrows(c) ==
  /\ dl[c].pc = "fetchDelay"
  /\ dl' = [dl EXCEPT ![c] =
       IF dl[c].requestCount < maxRequests
       THEN [dl[c] EXCEPT !.pc = "fetch", !.requestCount = dl[c].requestCount + 1]
       ELSE chunkDone([dl[c] EXCEPT !.hadError = TRUE, !.allResults = <<>>],
                      Len(dl[c].chunks))]
  /\ UNCHANGED <<now, historicalData, downloadJobs, poll, sync, cancelled>>

\* fetchBars: the 100 ms wait is over; the loop condition decides
FetchDelay(c) ==
  /\ dl[c].pc = "fetchDelay"
  /\ dl' = [dl EXCEPT ![c] =
       IF dl[c].requestCount < maxRequests
       THEN [dl[c] EXCEPT !.pc = "fetch", !.requestCount = dl[c].requestCount + 1]
       ELSE fetchReturned(dl[c], Len(dl[c].chunks))]
  /\ UNCHANGED <<now, historicalData, downloadJobs, poll, sync, cancelled>>

\* SaveSelect whose select has no timeframe condition
SaveSelectAnyTimeframe(c) ==
  /\ dl[c].pc = "saveSelect"
  /\ LET existingTimestamps ==
           {r.timestamp : r \in {x \in Rows : x.symbol = dl[c].symbol}}
         newCandles == filterNew(dl[c].allResults, existingTimestamps)
     IN  dl' = [dl EXCEPT ![c] =
           IF Len(newCandles) = 0
           THEN chunkDone(dl[c], Len(dl[c].chunks))
           ELSE [dl[c] EXCEPT !.pc = "saveInsert", !.i = 0,
                   !.formattedData = formatAll(newCandles, dl[c].symbol, dl[c].timeframe)]]
  /\ UNCHANGED <<now, historicalData, downloadJobs, poll, sync, cancelled>>

\* saveIntelligentData: read the stored timestamps of (symbol, timeframe),
\* filter the candles, format the new ones
SaveSelect(c) ==
  /\ dl[c].pc = "saveSelect"
  /\ LET existingTimestamps == timestampsOf(dl[c].symbol, dl[c].timeframe)
         newCandles == filterNew(dl[c].allResults, existingTimestamps)
     IN  dl' = [dl EXCEPT ![c] =
           IF Len(newCandles) = 0
           THEN chunkDone(dl[c], Len(dl[c].chunks))
           ELSE [dl[c] EXCEPT !.pc = "saveInsert", !.i = 0,
                   !.formattedData = formatAll(newCandles, dl[c].symbol, dl[c].timeframe)]]
  /\ UNCHANGED <<now, historicalData, downloadJobs, poll, sync, cancelled>>

\* saveIntelligentData: one insert statement of the chunk loop
SaveInsert(c) ==
  /\ dl[c].pc = "saveInsert"
  /\ historicalData' = insertValues(historicalData, slice(dl[c].formattedData, dl[c].i))
  /\ dl' = [dl EXCEPT ![c] =
       IF dl[c].i + chunkSize < Len(dl[c].formattedData)
       THEN [dl[c] EXCEPT !.i = dl[c].i + chunkSize]
       ELSE chunkDone(dl[c], Len(dl[c].chunks))]
  /\ UNCHANGED <<now, downloadJobs, poll, sync, cancelled>>

\* the 200 ms wait between two months is over; the next request is issued
ChunkDelay(c) ==
  /\ dl[c].pc = "chunkDelay"
  /\ dl' = [dl EXCEPT ![c] = nextIteration(dl[c], dl[c].processed, Len(dl[c].chunks))]
  /\ UNCHANGED <<now, historicalData, downloadJobs, poll, sync, cancelled>>

\* after the loop: mark the job completed
FinalUpdate(c) ==
  /\ dl[c].pc = "final"
  /\ downloadJobs' = markCompleted(downloadJobs, dl[c].jobId)
  /\ dl' = [dl EXCEPT ![c].pc = "done"]
  /\ UNCHANGED <<now, historicalData, poll, sync, cancelled>>

\* a statement of saveIntelligentData is rejected: the loop body's catch logs
\* the error and the loop goes on
SaveFails(c) ==
  /\ dl[c].pc \in {"saveSelect", "saveInsert"}
  /\ dl' = [dl EXCEPT ![c] =
       chunkDone([dl[c] EXCEPT !.hadError = TRUE], Len(dl[c].chunks))]
  /\ UNCHANGED <<now, historicalData, downloadJobs, poll, sync, cancelled>>

\* the final update is rejected: its catch logs a warning and
\* downloadHistoricalData returns
FinalUpdateFails(c) ==
  /\ dl[c].pc = "final"
  /\ dl' = [dl EXCEPT ![c].pc = "done"]
  /\ UNCHANGED <<now, historicalData, downloadJobs, poll, sync, cancelled>>

\* progressCallback throws at the top of the iteration after the wait: it is
\* called outside the try block, so the error leaves downloadHistoricalData
CallbackThrows(c) ==
  /\ dl[c].pc = "chunkDelay"
  /\ dl' = [dl EXCEPT ![c].pc = "done", ![c].hadError = TRUE]
  /\ UNCHANGED <<now, historicalData, downloadJobs, poll, sync, cancelled>>

\* fail(jobId, message) that also deletes the bars of the job's symbol and
\* timeframe
FailAndRollback(j, message) ==
  /\ j \in JobIds
  /\ downloadJobs[j].status = "in_progress"
  /\ downloadJobs' = [downloadJobs EXCEPT ![j].status = "failed",
                                          ![j].errorMessage = message]
  /\ historicalData' =
       [r \in {x \in Rows : ~(x.symbol = downloadJobs[j].symbol
                                /\ x.timeframe = downloadJobs[j].timeframe)}
          |-> historicalData[r]]
  /\ UNCHANGED <<now, dl, poll, sync, cancelled>>

\* JobTracker.fail(jobId, message): an in_progress job is marked failed and
\* the message recorded
Fail(j, message) ==
  /\ j \in JobIds
  /\ downloadJobs[j].status = "in_progress"
  /\ downloadJobs' = [downloadJobs EXCEPT ![j].status = "failed",
                                          ![j].errorMessage = message]
  /\ UNCHANGED <<now, historicalData, dl, poll, sync, cancelled>>

\* handleCancelDownload in the chart component: the client drops its progress
\* display; nothing is sent to the server
Cancel(c) ==
  /\ dl[c].pc \notin {"idle", "done"}
  /\ c \notin cancelled
  /\ cancelled' = cancelled \cup {c}
  /\ UNCHANGED <<now, historicalData, downloadJobs, dl, poll, sync>>

\* ------------------------------------------------------------------------
\* getDownloadProgress
\* ------------------------------------------------------------------------

NoFilter == [timeframe |-> "", period |-> ""]

\* the optional arguments a caller passes: none, or the timeframe and period
\* of a download that was requested
Filters ==
  {NoFilter} \cup {[timeframe |-> dl[c].timeframe, period |-> dl[c].period] :
                     c \in {d \in Calls : dl[d].pc # "idle"}}

IdlePoll ==
  [pc |-> "idle", symbol |-> "", filter |-> NoFilter, jobId |-> None,
   symbolOfJob |-> "", timeframeOfJob |-> "", expectedOfJob |-> 0,
   currentRecords |-> 0, percentage |-> 0]

\* the in_progress jobs the query of getDownloadProgress matches
polledJobs(symbol, filter) ==
  IF filter # NoFilter
  THEN activeJobs(toUpperCase(symbol), filter.timeframe, filter.period)
  ELSE activeJobsOfSymbol(toUpperCase(symbol))

\* orderBy(desc(createdAt)).limit(1): the job created last
latestOf(jobs) == CHOOSE j \in jobs : \A k \in jobs : k <= j

\* a caller polls the progress of a symbol, with or without timeframe+period
PollStart(p, rawSymbol, filter) ==
  /\ poll[p].pc = "idle"
  /\ poll' = [poll EXCEPT ![p] = [IdlePoll EXCEPT !.pc = "select",
                                    !.symbol = toUpperCase(rawSymbol),
                                    !.filter = filter]]
  /\ UNCHANGED <<now, historicalData, downloadJobs, dl, sync, cancelled>>

\* the query finds no active job: "No active download"
PollNoJob(p) ==
  /\ poll[p].pc = "select"
  /\ polledJobs(poll[p].symbol, poll[p].filter) = {}
  /\ poll' = [poll EXCEPT ![p] = IdlePoll]
  /\ UNCHANGED <<now, historicalData, downloadJobs, dl, sync, cancelled>>

\* the query returns the active job: job = activeJobs[0]; the arguments are
\* not read again
PollSelect(p) ==
  /\ poll[p].pc = "select"
  /\ polledJobs(poll[p].symbol, poll[p].filter) # {}
  /\ LET j == latestOf(polledJobs(poll[p].symbol, poll[p].filter))
     IN  poll' = [poll EXCEPT ![p].pc = "count", ![p].jobId = j,
                              ![p].symbol = "", ![p].filter = NoFilter,
                              ![p].symbolOfJob = downloadJobs[j].symbol,
                              ![p].timeframeOfJob = downloadJobs[j].timeframe,
                              ![p].expectedOfJob = downloadJobs[j].expectedRecords]
  /\ UNCHANGED <<now, historicalData, downloadJobs, dl, sync, cancelled>>

\* count the stored bars of the job's symbol and timeframe; derive percentage
PollCount(p) ==
  /\ poll[p].pc = "count"
  /\ LET currentRecords == countOf(poll[p].symbolOfJob, poll[p].timeframeOfJob)
     IN  poll' = [poll EXCEPT ![p].pc = "update",
                              ![p].currentRecords = currentRecords,
                              ![p].percentage = progressOf(currentRecords, poll[p].expectedOfJob)]
  /\ UNCHANGED <<now, historicalData, downloadJobs, dl, sync, cancelled>>

\* update the job's progress by id; then the completion test
PollUpdate(p) ==
  /\ poll[p].pc = "update"
  /\ downloadJobs' = setProgress(downloadJobs, poll[p].jobId,
                                 poll[p].currentRecords, poll[p].percentage)
  /\ poll' = [poll EXCEPT ![p] =
       IF isComplete(poll[p].currentRecords, poll[p].expectedOfJob)
       THEN [poll[p] EXCEPT !.pc = "complete"] ELSE IdlePoll]
  /\ UNCHANGED <<now, historicalData, dl, sync, cancelled>>

\* mark the job completed by id
PollComplete(p) ==
  /\ poll[p].pc = "complete"
  /\ downloadJobs' = markCompleted(downloadJobs, poll[p].jobId)
  /\ poll' = [poll EXCEPT ![p] = IdlePoll]
  /\ UNCHANGED <<now, historicalData, dl, sync, cancelled>>

\* ------------------------------------------------------------------------
\* POST /api/sync-ticker/:symbol: needsDataSync, syncTickerData
\* ------------------------------------------------------------------------

\* getLatestDataTimestamp(symbol): the newest stored timestamp of the symbol,
\* None when nothing is stored
getLatestDataTimestamp(symbol) ==
  LET ts == {r.timestamp : r \in {x \in Rows : x.symbol = symbol}}
  IN  IF ts = {} THEN None ELSE CHOOSE t \in ts : \A u \in ts : u <= t

\* the decision of needsDataSync from the latest stored timestamp
needsDataSync(latestTimestamp) ==
  IF latestTimestamp = None THEN TRUE
  ELSE latestTimestamp < getMostRecentMarketClose(now)

IdleSync ==
  [pc |-> "idle", symbol |-> "", from |-> None, to |-> None,
   requestCount |-> 0, allResults |-> <<>>,
   formattedData |-> <<>>, i |-> 0, result |-> ""]

\* the request arrives; the route upper-cases the symbol and calls needsDataSync
SyncStart(rawSymbol) ==
  /\ sync.pc = "idle"
  /\ sync.result = ""
  /\ sync' = [IdleSync EXCEPT !.pc = "needs", !.symbol = toUpperCase(rawSymbol)]
  /\ UNCHANGED <<now, historicalData, downloadJobs, dl, poll, cancelled>>

\* SyncNotNeeded that calls syncTickerData whatever needsDataSync returned
SyncAnyway ==
  /\ sync.pc = "needs"
  /\ ~needsDataSync(getLatestDataTimestamp(sync.symbol))
  /\ sync' = [sync EXCEPT !.pc = "latest"]
  /\ UNCHANGED <<now, historicalData, downloadJobs, dl, poll, cancelled>>

\* needsDataSync is false: "Data is up to date", synced: false
SyncNotNeeded ==
  /\ sync.pc = "needs"
  /\ ~needsDataSync(getLatestDataTimestamp(sync.symbol))
  /\ sync' = [sync EXCEPT !.pc = "idle", !.result = "fresh"]
  /\ UNCHANGED <<now, historicalData, downloadJobs, dl, poll, cancelled>>

\* needsDataSync is true: the route calls syncTickerData
SyncNeeded ==
  /\ sync.pc = "needs"
  /\ needsDataSync(getLatestDataTimestamp(sync.symbol))
  /\ sync' = [sync EXCEPT !.pc = "latest"]
  /\ UNCHANGED <<now, historicalData, downloadJobs, dl, poll, cancelled>>

\* SyncNoData that falls back to a fetch of the days before the close
SyncNoDataFetch ==
  /\ sync.pc = "latest"
  /\ getLatestDataTimestamp(sync.symbol) = None
  /\ sync' = [sync EXCEPT !.pc = "fetch", !.requestCount = 1,
                          !.to = toISODate(getMostRecentMarketClose(now))]
  /\ UNCHANGED <<now, historicalData, downloadJobs, dl, poll, cancelled>>

\* syncTickerData: no stored data, the error reaches the route (status 500)
SyncNoData ==
  /\ sync.pc = "latest"
  /\ getLatestDataTimestamp(sync.symbol) = None
  /\ sync' = [sync EXCEPT !.pc = "idle", !.result = "notOnboarded"]
  /\ UNCHANGED <<now, historicalData, downloadJobs, dl, poll, cancelled>>

\* the range of syncTickerData and what follows it: the range is empty
\* ("already up to date") or the request for it is issued
syncRangeOf(fromDate, mostRecentClose) ==
  IF fromDate >= mostRecentClose
  THEN [sync EXCEPT !.pc = "idle", !.result = "upToDate"]
  ELSE [sync EXCEPT !.pc = "fetch", !.requestCount = 1,
                    !.from = toISODate(fromDate),
                    !.to = toISODate(mostRecentClose)]

\* SyncRange without the test for an empty range
SyncRangeAlways ==
  /\ sync.pc = "latest"
  /\ getLatestDataTimestamp(sync.symbol) # None
  /\ sync' = [sync EXCEPT !.pc = "fetch", !.requestCount = 1,
                          !.from = toISODate(getLatestDataTimestamp(sync.symbol)
                                             + MinPerDay),
                          !.to = toISODate(getMostRecentMarketClose(now))]
  /\ UNCHANGED <<now, historicalData, downloadJobs, dl, poll, cancelled>>

\* syncTickerData: from = day after the latest timestamp, to = the most
\* recent close
SyncRange ==
  /\ sync.pc = "latest"
  /\ getLatestDataTimestamp(sync.symbol) # None
  /\ sync' = syncRangeOf(setDate(getLatestDataTimestamp(sync.symbol),
                                 getDate(getLatestDataTimestamp(sync.symbol)) + 1),
                         getMostRecentMarketClose(now))
  /\ UNCHANGED <<now, historicalData, downloadJobs, dl, poll, cancelled>>

\* SyncFetchFail that sends the failed request once more
SyncFetchRetry ==
  /\ sync.pc = "fetch"
  /\ sync' = IF sync.requestCount < MaxPages
             THEN [sync EXCEPT !.requestCount = sync.requestCount + 1]
             ELSE [IdleSync EXCEPT !.symbol = sync.symbol, !.result = "providerError"]
  /\ UNCHANGED <<now, historicalData, downloadJobs, dl, poll, cancelled>>

\* fetchBars fails: the error reaches the route (status 500)
SyncFetchFail ==
  /\ sync.pc = "fetch"
  /\ sync' = [IdleSync EXCEPT !.symbol = sync.symbol, !.result = "providerError"]
  /\ UNCHANGED <<now, historicalData, downloadJobs, dl, poll, cancelled>>

\* fetchBars returned `data` to syncTickerData
syncReturned(call) ==
  IF Len(call.allResults) > 0
  THEN [call EXCEPT !.pc = "insert", !.i = 0,
          !.formattedData = formatAll(call.allResults, call.symbol, "1M")]
  ELSE [IdleSync EXCEPT !.symbol = call.symbol, !.result = "noNewData"]

\* fetchBars: a response with status OK or DELAYED
SyncFetchPage(results, hasNext) ==
  /\ sync.pc = "fetch"
  /\ Len(sync.allResults) + Len(results) <= MaxResults
  /\ LET call == [sync EXCEPT !.allResults = sync.allResults \o results]
     IN  sync' = IF hasNext THEN [call EXCEPT !.pc = "fetchDelay"]
                 ELSE syncReturned(call)
  /\ UNCHANGED <<now, historicalData, downloadJobs, dl, poll, cancelled>>

\* fetchBars: the 100 ms wait is over
SyncFetchDelay ==
  /\ sync.pc = "fetchDelay"
  /\ sync' = IF sync.requestCount < maxRequests
             THEN [sync EXCEPT !.pc = "fetch", !.requestCount = sync.requestCount + 1]
             ELSE syncReturned(sync)
  /\ UNCHANGED <<now, historicalData, downloadJobs, dl, poll, cancelled>>

\* saveBarsToDatabase: one insert statement of the chunk loop
SyncInsert ==
  /\ sync.pc = "insert"
  /\ historicalData' = insertValues(historicalData, slice(sync.formattedData, sync.i))
  /\ sync' = IF sync.i + chunkSize < Len(sync.formattedData)
             THEN [sync EXCEPT !.i = sync.i + chunkSize]
             ELSE [IdleSync EXCEPT !.symbol = sync.symbol, !.result = "synced"]
  /\ UNCHANGED <<now, downloadJobs, dl, poll, cancelled>>

\* ------------------------------------------------------------------------
\* Specifications
\* ------------------------------------------------------------------------

Init ==
  /\ now \in Nows
  /\ historicalData \in {EmptyBag, PriorBars}
  /\ downloadJobs = <<>>
  /\ dl = [c \in Calls |-> IdleCall]
  /\ poll = [p \in Pollers |-> IdlePoll]
  /\ sync = IdleSync
  /\ cancelled = {}

\* the steps of a download call that creates its job
Body(c) ==
  \/ SelectNone(c)
  \/ InsertJob(c)
  \/ FetchFail(c)
  \/ SaveSelect(c)
  \/ SaveInsert(c)
  \/ FinalUpdate(c)

\* the steps of one download call
Download(c) ==
  \/ AttachExisting(c)
  \/ Body(c)

\* the steps of one progress poll
Poll(p) ==
  \/ \E s \in RawSymbols, f \in Filters : PollStart(p, s, f)
  \/ PollNoJob(p)
  \/ PollSelect(p)
  \/ PollCount(p)
  \/ PollUpdate(p)
  \/ PollComplete(p)

\* Spec: one bulk download of any admitted request, with pagination, the
\* client's Cancel and a progress poller; the job table starts empty, so the
\* call finds no job to attach to
Next ==
  \/ \E s \in RawSymbols, pd \in Periods, tf \in Timeframes : StartDownload("d1", s, pd, tf)
  \/ Body("d1")
  \/ \E results \in Pages(MaxPage), hasNext \in BOOLEAN :
       withinPages(dl["d1"].requestCount, hasNext) /\ FetchPage("d1", results, hasNext)
  \/ FetchDelay("d1")
  \/ ChunkDelay("d1")
  \/ Cancel("d1")
  \/ \E p \in Pollers : Poll(p)

Spec == Init /\ [][Next]_vars

\* the calls whose range is a single partition
singlePartition(c) == Len(dl'[c].chunks) = 1

\* the second call arrives after the first (the calls are interchangeable)
inOrder(c) == c = "d2" => dl["d1"].pc # "idle"

\* SpecJobs: two concurrent bulk downloads of single-partition requests, the
\* provider answering each range in one response with one price per bar, and
\* a progress poller; the clock stands on a Saturday, of 2025 or of 2010
InitJobs ==
  /\ now \in {At(2025, 8, 16, 15, 0), NowIn2010}
  /\ historicalData \in {EmptyBag, PriorBars}
  /\ downloadJobs = <<>>
  /\ dl = [c \in Calls |-> IdleCall]
  /\ poll = [p \in Pollers |-> IdlePoll]
  /\ sync = IdleSync
  /\ cancelled = {}

NextJobs ==
  \/ \E c \in Calls, s \in RawSymbols, pd \in Periods, tf \in Timeframes :
       inOrder(c) /\ StartDownload(c, s, pd, tf) /\ singlePartition(c)
  \/ \E c \in Calls : Download(c)
  \/ \E c \in Calls, results \in PagesOf(CandlesAtOnePrice, MaxPage) :
       FetchPage(c, results, FALSE)
  \/ \E p \in Pollers : Poll(p)

SpecJobs == InitJobs /\ [][NextJobs]_vars

\* SpecKeys: one bulk download of one month of SPY on the Saturday, over a
\* table that earlier downloads of SPY and QQQ left bars in, at the timestamps
\* the provider delivers, under either timeframe
StoredSymbols == {"SPY", "QQQ"}

KeyStores(t) ==
  LET rows == {[symbol |-> sym, timestamp |-> ts, close |-> toFixed2(100004),
                timeframe |-> tf] :
                 sym \in StoredSymbols, ts \in {t - 3 * MinPerDay, t - 60},
                 tf \in Timeframes}
  IN  {SetToBag(rs) : rs \in SUBSET rows}

InitKeys ==
  /\ now = At(2025, 8, 16, 15, 0)
  /\ historicalData \in KeyStores(now)
  /\ downloadJobs = <<>>
  /\ dl = [c \in Calls |-> IdleCall]
  /\ poll = [p \in Pollers |-> IdlePoll]
  /\ sync = IdleSync
  /\ cancelled = {}

NextKeys ==
  \/ \E s \in RawSymbols, tf \in Timeframes : StartDownload("d1", s, "1M", tf)
  \/ Body("d1")
  \/ \E results \in PagesOf(CandlesAtOnePrice, MaxPage) : FetchPage("d1", results, FALSE)

SpecKeys == InitKeys /\ [][NextKeys]_vars

\* SpecStore: the writers of historical_data: a bulk download of one month
\* that spans the turn of the year (two yearly partitions) and an incremental
\* sync, over a store that holds earlier bars; the job table starts empty
InitStore ==
  /\ now = At(2026, 1, 10, 15, 0)
  /\ historicalData = PriorBars
  /\ downloadJobs = <<>>
  /\ dl = [c \in Calls |-> IdleCall]
  /\ poll = [p \in Pollers |-> IdlePoll]
  /\ sync = IdleSync
  /\ cancelled = {}

NextStore ==
  \/ \E s \in RawSymbols, tf \in Timeframes : StartDownload("d1", s, "1M", tf)
  \/ Body("d1")
  \/ \E results \in Pages(MaxPage), hasNext \in BOOLEAN :
       withinPages(dl["d1"].requestCount, hasNext) /\ FetchPage("d1", results, hasNext)
  \/ FetchDelay("d1")
  \/ \E s \in RawSymbols : SyncStart(s)
  \/ SyncNotNeeded
  \/ SyncNeeded
  \/ SyncRange
  \/ SyncFetchFail
  \/ \E results \in Pages(MaxPage), hasNext \in BOOLEAN :
       withinPages(sync.requestCount, hasNext) /\ SyncFetchPage(results, hasNext)
  \/ SyncFetchDelay
  \/ SyncInsert

SpecStore == InitStore /\ [][NextStore]_vars

\* SpecFail: one bulk download of one month on the Saturday, the provider
\* answering each range in one response, and the failing of its job
InitFail ==
  /\ now = At(2025, 8, 16, 15, 0)
  /\ historicalData \in {EmptyBag, PriorBars}
  /\ downloadJobs = <<>>
  /\ dl = [c \in Calls |-> IdleCall]
  /\ poll = [p \in Pollers |-> IdlePoll]
  /\ sync = IdleSync
  /\ cancelled = {}

NextFail ==
  \/ \E s \in RawSymbols, tf \in Timeframes : StartDownload("d1", s, "1M", tf)
  \/ Body("d1")
  \/ \E results \in Pages(MaxPage) : FetchPage("d1", results, FALSE)
  \/ \E j \in JobIds, message \in Messages : Fail(j, message)

SpecFail == InitFail /\ [][NextFail]_vars

\* SpecFetch: one bulk download of one month on the Saturday (one range, one
\* fetchBars call), the provider free to return a next_url on every response;
\* every request is answered, by a response or a failure, and every wait ends
Respond(c) ==
  \/ FetchFail(c)
  \/ \E results \in Pages(MaxPage), hasNext \in BOOLEAN : FetchPage(c, results, hasNext)

NextFetch ==
  \/ \E s \in RawSymbols, tf \in Timeframes : StartDownload("d1", s, "1M", tf)
  \/ Body("d1")
  \/ Respond("d1")
  \/ FetchDelay("d1")

SpecFetch ==
  /\ InitFail
  /\ [][NextFetch]_vars
  /\ WF_vars(Respond("d1"))
  /\ WF_vars(FetchDelay("d1"))

\* SpecLive: one bulk download of one or three months whose statements and
\* progress callback can fail; every step of the call that can be taken is
\* taken in the end
NextLive ==
  \/ \E s \in RawSymbols, pd \in {"1M", "3M"}, tf \in Timeframes :
       StartDownload("d1", s, pd, tf)
  \/ Body("d1")
  \/ \E results \in PagesOf(CandlesAtOnePrice, MaxPage) : FetchPage("d1", results, FALSE)
  \/ ChunkDelay("d1")
  \/ SaveFails("d1")
  \/ FinalUpdateFails("d1")
  \/ CallbackThrows("d1")

SpecLive ==
  /\ InitFail
  /\ [][NextLive]_vars
  /\ WF_vars(Body("d1"))
  /\ WF_vars(ChunkDelay("d1"))

\* a table holding one bar of SPY
oneBar(timestamp, timeframe) ==
  SetToBag({[symbol |-> "SPY", timestamp |-> timestamp,
             close |-> toFixed2(100004), timeframe |-> timeframe]})

\* the tables of SpecSync: empty, the old daily bars, a minute bar of the last
\* hour of the most recent session, a minute bar three days old, a daily bar
\* after the most recent close, and the last two together
SyncStores(mostRecentClose) ==
  {EmptyBag, PriorBars,
   oneBar(mostRecentClose - 60, "1M"),
   oneBar(now - 3 * MinPerDay, "1M"),
   oneBar(now - 60, "1D"),
   oneBar(now - 60, "1D") (+) oneBar(now - 3 * MinPerDay, "1M")}

\* SpecSync: one request to POST /api/sync-ticker/:symbol on a Saturday or a
\* Wednesday, over each of the tables of SyncStores
InitSync ==
  /\ now \in Nows
  /\ historicalData \in SyncStores(getMostRecentMarketClose(now))
  /\ downloadJobs = <<>>
  /\ dl = [c \in Calls |-> IdleCall]
  /\ poll = [p \in Pollers |-> IdlePoll]
  /\ sync = IdleSync
  /\ cancelled = {}

NextSync ==
  \/ \E s \in RawSymbols : SyncStart(s)
  \/ SyncNotNeeded
  \/ SyncNeeded
  \/ SyncNoData
  \/ SyncRange
  \/ SyncFetchFail
  \/ \E results \in Pages(MaxPage), hasNext \in BOOLEAN :
       withinPages(sync.requestCount, hasNext) /\ SyncFetchPage(results, hasNext)
  \/ SyncFetchDelay
  \/ SyncInsert

SpecSync == InitSync /\ [][NextSync]_vars

\* the clock of SpecClock runs from Thursday 2026-02-26 to Tuesday 2026-03-10,
\* over a turn of the month on a weekend and the start of daylight saving time
ClockStart == At(2026, 2, 26, 0, 0)
ClockEnd == At(2026, 3, 10, 0, 0)

\* half an hour passes (new Date() reads the clock)
Tick ==
  /\ now < ClockEnd
  /\ now' = now + 30
  /\ UNCHANGED <<historicalData, downloadJobs, dl, poll, sync, cancelled>>

\* SpecClock: the clock advances in half hours while one request to
\* POST /api/sync-ticker/:symbol runs over a table with one minute bar
InitClock ==
  /\ now = ClockStart
  /\ historicalData = oneBar(ClockStart + 12 * 60, "1M")
  /\ downloadJobs = <<>>
  /\ dl = [c \in Calls |-> IdleCall]
  /\ poll = [p \in Pollers |-> IdlePoll]
  /\ sync = IdleSync
  /\ cancelled = {}

NextClock ==
  \/ Tick
  \/ \E s \in RawSymbols : SyncStart(s)
  \/ SyncNotNeeded
  \/ SyncNeeded
  \/ SyncRange
  \/ \E results \in PagesOf(CandlesAtOnePrice, MaxPage) : SyncFetchPage(results, FALSE)
  \/ SyncInsert

SpecClock == InitClock /\ [][NextClock]_vars

\* every half hour of the clock of SpecClock
SessionInstants == {ClockStart + 30 * k : k \in 0..((ClockEnd - ClockStart) \div 30)}

\* SpecSession: one bulk download of one month requested at any half hour
\* from Thursday 2026-02-26 to Tuesday 2026-03-10, the provider answering the
\* range in one response
InitSession ==
  /\ now \in SessionInstants
  /\ historicalData = EmptyBag
  /\ downloadJobs = <<>>
  /\ dl = [c \in Calls |-> IdleCall]
  /\ poll = [p \in Pollers |-> IdlePoll]
  /\ sync = IdleSync
  /\ cancelled = {}

NextSession ==
  \/ \E s \in RawSymbols, tf \in Timeframes : StartDownload("d1", s, "1M", tf)
  \/ Body("d1")
  \/ \E results \in PagesOf(CandlesAtOnePrice, MaxPage) : FetchPage("d1", results, FALSE)

SpecSession == InitSession /\ [][NextSession]_vars

\* the timeframes calculateExpectedRecords knows
KnownTimeframes == {"1M", "5M", "15M", "30M", "1H", "1D"}

\* SpecExpected: one bulk download of any admitted period in any known
\* timeframe, requested in 2025 or on the Saturday of 2010, the provider
\* answering each range in one response
InitExpected ==
  /\ now \in Nows \cup {NowIn2010}
  /\ historicalData = EmptyBag
  /\ downloadJobs = <<>>
  /\ dl = [c \in Calls |-> IdleCall]
  /\ poll = [p \in Pollers |-> IdlePoll]
  /\ sync = IdleSync
  /\ cancelled = {}

NextExpected ==
  \/ \E s \in RawSymbols, pd \in Periods, tf \in KnownTimeframes :
       StartDownload("d1", s, pd, tf)
  \/ Body("d1")
  \/ \E results \in PagesOf(CandlesAtOnePrice, MaxPage) : FetchPage("d1", results, FALSE)
  \/ ChunkDelay("d1")

SpecExpected == InitExpected /\ [][NextExpected]_vars

\* the timeframes of SpecPartition: two minute-bar timeframes and the daily one
PartitionTimeframes == {"1M", "5M", "1D"}

\* SpecPartition: one bulk download of any admitted period in a minute-bar or
\* the daily timeframe, the provider answering each range in one response
NextPartition ==
  \/ \E s \in RawSymbols, pd \in Periods, tf \in PartitionTimeframes :
       StartDownload("d1", s, pd, tf)
  \/ Body("d1")
  \/ \E results \in PagesOf(CandlesAtOnePrice, MaxPage) : FetchPage("d1", results, FALSE)
  \/ ChunkDelay("d1")

SpecPartition == Init /\ [][NextPartition]_vars

\* SpecStatus: one bulk download of one month that spans the turn of the year
\* (two yearly partitions), each provider response arriving with its HTTP
\* outcome and status before fetchBars handles it
NextStatus ==
  \/ \E s \in RawSymbols, tf \in Timeframes : StartDownload("d1", s, "1M", tf)
  \/ SelectNone("d1")
  \/ InsertJob("d1")
  \/ \E response \in Responses(dl["d1"].requestCount) : Arrive("d1", response)
  \/ HandleResponse("d1")
  \/ FetchDelay("d1")
  \/ SaveSelect("d1")
  \/ SaveInsert("d1")
  \/ FinalUpdate("d1")

SpecStatus == InitStore /\ [][NextStatus]_vars

\* ------------------------------------------------------------------------
\* Properties
\* ------------------------------------------------------------------------

\* the keys stored in a table
keysOf(table) == {Key(r) : r \in BagToSet(table)}

\* the keys of a sequence of rows that a table does not hold
newKeys(rows, table) == {Key(rows[k]) : k \in 1..Len(rows)} \ keysOf(table)

\* the timestamps of a sequence of candles
timesOf(candles) == {candles[k].t : k \in 1..Len(candles)}

\* the job row of a call
jobOf(c) == downloadJobs[dl[c].jobId]

\* C1: under every interleaving of the writes of syncTickerData and of
\* saveIntelligentData, the bar store holds at most one row per
\* (symbol, timestamp, timeframe): no row is stored twice and no two rows
\* share a key.
UniqueKey ==
  \A r \in Rows : /\ CopiesIn(r, historicalData) = 1
                  /\ \A q \in Rows : Key(q) = Key(r) => q = r

\* an insert statement is about to write a bar whose key the store holds:
\* the bar came in two fetch batches
OverlappingWrite ==
  \E c \in Calls :
    /\ dl[c].pc = "saveInsert"
    /\ \E k \in 1..Len(dl[c].formattedData) :
         Key(dl[c].formattedData[k]) \in keysOf(historicalData)

\* C2: saveIntelligentData is idempotent. When a call of it returns, every
\* timestamp of its batch is stored for the symbol and timeframe; a call that
\* starts with every timestamp of its batch stored (as after a call with the
\* same batch) issues no insert and leaves the store unchanged; and an insert
\* statement adds exactly one row per distinct key of its rows that the store
\* does not hold.
WriteNewIdempotent ==
  [][\A c \in Calls :
       /\ (dl[c].pc = "saveInsert" /\ dl'[c] # dl[c]) =>
            BagCardinality(historicalData') =
              BagCardinality(historicalData)
                + Cardinality(newKeys(slice(dl[c].formattedData, dl[c].i), historicalData))
       /\ (dl[c].pc \in {"saveSelect", "saveInsert"}
             /\ dl'[c].pc \notin {"saveSelect", "saveInsert"}) =>
            timesOf(dl[c].allResults) \subseteq
              timestampsIn(historicalData', dl[c].symbol, dl[c].timeframe)
       /\ (dl[c].pc = "saveSelect" /\ dl'[c] # dl[c]
             /\ timesOf(dl[c].allResults) \subseteq timestampsOf(dl[c].symbol, dl[c].timeframe)) =>
            /\ dl'[c].pc # "saveInsert"
            /\ historicalData' = historicalData
    ]_vars

\* the second partition's save starts with a batch whose bars the first
\* partition's save has stored
SecondSaveOfBatch ==
  \E c \in Calls :
    /\ dl[c].pc = "saveSelect"
    /\ dl[c].processed >= 1
    /\ Len(dl[c].allResults) >= 1
    /\ timesOf(dl[c].allResults) \subseteq timestampsOf(dl[c].symbol, dl[c].timeframe)
    /\ sync = IdleSync

\* C3: at most one download job with status in_progress exists per
\* (symbol, timeframe, period), under every interleaving of the existence
\* check and the insert of concurrent calls.
NoDuplicateJobs ==
  \A j, k \in JobIds :
    (/\ downloadJobs[j].status = "in_progress"
     /\ downloadJobs[k].status = "in_progress"
     /\ downloadJobs[j].symbol = downloadJobs[k].symbol
     /\ downloadJobs[j].timeframe = downloadJobs[k].timeframe
     /\ downloadJobs[j].period = downloadJobs[k].period) => j = k

\* C4: a call whose existence check finds an in_progress job of its
\* (symbol, timeframe, period) returns that job's id with isExisting = true
\* and inserts no job row; the call then does nothing more: no fetch, no bar
\* written, no job field changed.
AttachDoesNoWork ==
  [][\A c \in Calls :
       /\ (/\ dl[c].pc = "select"
           /\ activeJobs(dl[c].symbol, dl[c].timeframe, dl[c].period) # {}
           /\ dl'[c] # dl[c]) =>
            /\ dl'[c].isExisting
            /\ dl'[c].jobId \in activeJobs(dl[c].symbol, dl[c].timeframe, dl[c].period)
            /\ dl'[c].pc = "done"
            /\ downloadJobs' = downloadJobs
            /\ historicalData' = historicalData
       /\ dl[c].isExisting => dl'[c] = dl[c]
    ]_vars

\* a call has returned an existing job
Attached == \E c \in Calls : dl[c].isExisting /\ dl[c].pc = "done"

\* C5: a job row is created in_progress, no job row disappears, and a status
\* that is completed or failed never changes again.
StatusOneWay ==
  [][/\ Len(downloadJobs') >= Len(downloadJobs)
     /\ \A j \in 1..Len(downloadJobs') :
          IF j \in JobIds
          THEN /\ downloadJobs[j].status \in {"completed", "failed"} =>
                    downloadJobs'[j].status = downloadJobs[j].status
               /\ downloadJobs'[j].status \in {"in_progress", "completed", "failed"}
          ELSE downloadJobs'[j].status = "in_progress"
    ]_vars

\* a progress poll that selected the job while it was in_progress is about
\* to write to it after it was completed
WriteToCompleted ==
  \E p \in Pollers :
    /\ poll[p].pc \in {"update", "complete"}
    /\ downloadJobs[poll[p].jobId].status = "completed"

\* C6: no step lowers the progressPercentage of a job.
ProgressMonotone ==
  [][\A j \in JobIds :
       downloadJobs'[j].progressPercentage >= downloadJobs[j].progressPercentage]_vars

\* C7: the progressPercentage of every job lies in [0, 100], whatever the
\* stored-bar count and the job's expectedRecords.
ProgressBounded ==
  \A j \in JobIds : downloadJobs[j].progressPercentage \in 0..100

\* a poll has stored a bar count above 0 for a job that expects 0 records
CountOverZeroExpected ==
  \E j \in JobIds :
    /\ downloadJobs[j].expectedRecords = 0
    /\ downloadJobs[j].currentRecords > 0

CompletedAtHundred ==
  \A c \in Calls :
    (dl[c].pc = "done" /\ ~dl[c].isExisting /\ dl[c].jobId # None) =>
      /\ jobOf(c).status = "completed"
      /\ jobOf(c).progressPercentage = 100

\* a provider request of call c is issued in this step
Issue(c) ==
  /\ dl'[c].pc = "fetch"
  /\ \/ dl[c].pc # "fetch"
     \/ dl'[c].processed # dl[c].processed
     \/ dl'[c].requestCount # dl[c].requestCount

\* C10: after a download was cancelled no provider request is issued for it,
\* and the cancellation itself changes neither the stored bars nor the jobs.
CancelStopsRequests ==
  [][/\ \A c \in cancelled : ~Issue(c)
     /\ cancelled' # cancelled =>
          /\ historicalData' = historicalData
          /\ downloadJobs' = downloadJobs
    ]_vars

\* C11: a step that marks a job failed takes it from in_progress, records a
\* message in errorMessage, changes no other job and leaves the stored bars
\* as they are.
FailKeepsBars ==
  [][\A j \in JobIds :
       (downloadJobs'[j].status = "failed" /\ downloadJobs[j].status # "failed") =>
         /\ downloadJobs[j].status = "in_progress"
         /\ downloadJobs'[j].errorMessage \in Messages
         /\ \A k \in JobIds \ {j} : downloadJobs'[k] = downloadJobs[k]
         /\ historicalData' = historicalData
    ]_vars

\* a job is failed with its message while bars its download wrote are stored
FailedWithBars ==
  \E j \in JobIds :
    /\ downloadJobs[j].status = "failed"
    /\ downloadJobs[j].errorMessage \in Messages
    /\ timestampsOf(downloadJobs[j].symbol, downloadJobs[j].timeframe) \cap BarTimes # {}

\* C12: a fetchBars call never issues more than maxRequests (50) requests,
\* and it returns or throws, whatever next_url the responses carry.
FetchTerminates ==
  /\ [](\A c \in Calls : dl[c].requestCount <= maxRequests)
  /\ \A c \in Calls :
       (dl[c].pc = "fetch") ~> (dl[c].pc \notin {"fetch", "fetchDelay"})

\* the response to the last request the cap allows carried a next_url
CursorAtCap ==
  \E c \in Calls : dl[c].pc = "fetchDelay" /\ dl[c].requestCount = maxRequests

\* call c handles an arrived response with the given status in this step
Handles(c, status) ==
  /\ dl[c].response # NoResponse
  /\ dl[c].response.ok
  /\ dl[c].response.status = status
  /\ dl'[c].response = NoResponse

\* the state of call c after a response with these results and this next_url
\* was handled as a success
afterSuccess(c, results, hasNext) ==
  LET all == dl[c].allResults \o results
  IN  /\ dl'[c].hadError = dl[c].hadError
      /\ IF hasNext
         THEN dl'[c].pc = "fetchDelay" /\ dl'[c].allResults = all
         ELSE IF Len(all) > 0
              THEN dl'[c].pc = "saveSelect" /\ dl'[c].allResults = all
              ELSE dl'[c].processed = dl[c].processed + 1

\* C13: a response with status DELAYED is handled as a success: no error is
\* raised, its results are appended to the accumulated results, and its
\* next_url is followed (the wait before the next request starts) exactly as
\* for a response with status OK.
DelayedIsSuccess ==
  [][\A c \in Calls :
       /\ Handles(c, "DELAYED") =>
            afterSuccess(c, dl[c].response.results, dl[c].response.hasNext)
       /\ Handles(c, "OK") =>
            afterSuccess(c, dl[c].response.results, dl[c].response.hasNext)
    ]_vars

\* a DELAYED response with bars and a next_url is about to be handled
DelayedPageArrived ==
  \E c \in Calls :
    /\ dl[c].response.status = "DELAYED"
    /\ dl[c].response.hasNext
    /\ Len(dl[c].response.results) > 0

\* an HTTP failure or a body with status ERROR
isHardError(response) == ~response.ok \/ response.status = "ERROR"

\* C14: when fetchBars handles an HTTP failure or a response with status
\* ERROR, on the first page or a later one, the call for that chunk ends at
\* once: the error reaches the caller, the pages accumulated so far are
\* dropped, nothing is written, and the next request, if any, is the first
\* request of the next chunk.
HardErrorAborts ==
  [][\A c \in Calls :
       (/\ dl[c].response # NoResponse
        /\ isHardError(dl[c].response)
        /\ dl'[c].response = NoResponse)
       => /\ dl'[c].hadError
          /\ dl'[c].allResults = <<>>
          /\ dl'[c].processed = dl[c].processed + 1
          /\ dl'[c].pc \in {"fetch", "chunkDelay", "final"}
          /\ dl'[c].pc = "fetch" => dl'[c].requestCount = 1
          /\ historicalData' = historicalData
    ]_vars

\* a hard error arrived for the second page of a chunk whose first page
\* delivered bars
HardErrorOnLaterPage ==
  \E c \in Calls :
    /\ dl[c].response # NoResponse
    /\ isHardError(dl[c].response)
    /\ dl[c].requestCount > 1
    /\ Len(dl[c].allResults) > 0

\* the range of call c is one of minute bars over more than 90 days
longMinuteRange(c) ==
  /\ timespanOf(dl[c].timeframe) = "minute"
  /\ dl[c].endDate - dl[c].startDate > NinetyDays

\* C15: a bulk download of a minute-bar timeframe over more than 90 days is
\* split into the months of its range and is never one request; any other
\* bulk download is split into the calendar years of its range; a range of
\* 400 days has about 14 months.
MinuteBarsByMonth ==
  /\ Len(monthStarts(now - 400 * MinPerDay, now)) \in 14..15
  /\ \A c \in Calls :
       dl[c].pc \notin {"idle", "select", "insert"} =>
         IF longMinuteRange(c)
         THEN /\ dl[c].chunks =
                   monthChunks(monthStarts(dl[c].startDate, dl[c].endDate),
                               dl[c].endDate)
              /\ Len(dl[c].chunks) > 1
         ELSE dl[c].chunks =
                yearChunks(getYearRange(dl[c].startDate, dl[c].endDate),
                           dl[c].startDate, dl[c].endDate)

\* C16: syncTickerData for a symbol without any stored bar fails with the
\* error that points to downloadHistoricalData; no request is issued and the
\* table is left as it is.
NotOnboardedFails ==
  [][(/\ sync.pc = "latest"
      /\ getLatestDataTimestamp(sync.symbol) = None
      /\ sync' # sync)
     => /\ sync'.pc = "idle"
        /\ sync'.result = "notOnboarded"
        /\ sync'.requestCount = 0
        /\ historicalData' = historicalData
    ]_vars

\* a sync of a symbol without stored bars has failed
NotOnboardedRaised == sync.result = "notOnboarded" /\ historicalData = EmptyBag

\* C17: when needsDataSync is false for the symbol, the sync request ends
\* with "Data is up to date": syncTickerData is not called, no request is
\* issued and the table is left as it is.
FreshIsNoOp ==
  [][(/\ sync.pc = "needs"
      /\ ~needsDataSync(getLatestDataTimestamp(sync.symbol))
      /\ sync' # sync)
     => /\ sync'.pc = "idle"
        /\ sync'.result = "fresh"
        /\ sync'.requestCount = 0
        /\ historicalData' = historicalData
    ]_vars

\* a sync request over a table with bars ended as not needed
FreshAnswered == sync.result = "fresh" /\ historicalData # EmptyBag

\* needsSync for one key: no bar of the key is stored, or the latest one
\* precedes the most recent close
needsSyncOfKey(symbol, timeframe) ==
  \/ timestampsOf(symbol, timeframe) = {}
  \/ \A t \in timestampsOf(symbol, timeframe) : t < getMostRecentMarketClose(now)

\* C18: the route's needsDataSync decision for a symbol equals needsSync of
\* the key (symbol, "1M") that syncTickerData fetches and writes: the bars
\* stored for the symbol under another timeframe do not change it.
NeedsSyncPerKey ==
  [][(sync.pc = "needs" /\ sync'.pc # "needs")
     => ((sync'.pc = "latest") <=> needsSyncOfKey(sync.symbol, "1M"))
    ]_vars

\* C19: syncTickerData over stored bars asks for the range from the day after
\* the latest stored timestamp to the most recent close; when that day after
\* is not before the close it returns without a request, a write or an error.
EmptyRangeIsNoOp ==
  [][(/\ sync.pc = "latest"
      /\ getLatestDataTimestamp(sync.symbol) # None
      /\ sync' # sync)
     => IF getLatestDataTimestamp(sync.symbol) + MinPerDay
             >= getMostRecentMarketClose(now)
        THEN /\ sync'.pc = "idle"
             /\ sync'.result = "upToDate"
             /\ sync'.requestCount = 0
             /\ historicalData' = historicalData
        ELSE /\ sync'.pc = "fetch"
             /\ sync'.requestCount = 1
             /\ sync'.from = DayOf(getLatestDataTimestamp(sync.symbol)) + 1
             /\ sync'.to = DayOf(getMostRecentMarketClose(now))
    ]_vars

\* a sync that was needed found its range empty
EmptyRangeReturned == sync.result = "upToDate"

\* New York's wall clock shows a weekday at or after 16:00
afterCloseOnWeekday(et) == getDay(et) \in 1..5 /\ getHours(et) >= 16

\* C20: getMostRecentMarketClose returns 16:00 of a weekday: of New York's
\* today when it is a weekday at or after 16:00 there, and otherwise of the
\* nearest weekday before today; on a Saturday or a Sunday that is the Friday
\* before.
CloseOfLastSession ==
  LET et    == toEastern(now)
      close == getMostRecentMarketClose(now)
  IN  /\ getDay(close) \in 1..5
      /\ getHours(close) = 16 /\ getMinutes(close) = 0
      /\ IF afterCloseOnWeekday(et)
         THEN DayOf(close) = DayOf(et)
         ELSE /\ DayOf(close) < DayOf(et)
              /\ \A d \in (DayOf(close) + 1)..(DayOf(et) - 1) :
                   getDay(d * MinPerDay) \in {0, 6}
      /\ getDay(et) = 6 => DayOf(close) = DayOf(et) - 1
      /\ getDay(et) = 0 => DayOf(close) = DayOf(et) - 2

\* needsDataSync has read the most recent close on a Sunday, the first of
\* the month
CloseReadOnSunday ==
  /\ getDay(toEastern(now)) = 0
  /\ getDate(toEastern(now)) = 1
  /\ sync.pc = "latest"

\* New York's wall clock shows Monday to Friday, 9:30 to 16:00
inTradingWindow(et) ==
  /\ getDay(et) \in 1..5
  /\ MinuteOf(et) >= 9 * 60 + 30
  /\ MinuteOf(et) <= 16 * 60

\* C21: isMarketOpen is true exactly when New York's wall clock shows Monday
\* to Friday between 9:30 and 16:00: it is false on every Saturday and
\* Sunday and outside the window on weekdays. A download started while it is
\* true ends its range at the most recent close, any other at the clock.
OpenOnlyInWindow ==
  /\ isMarketOpen(now) <=> inTradingWindow(toEastern(now))
  /\ getDay(toEastern(now)) \in {0, 6} => ~isMarketOpen(now)
  /\ \A c \in Calls :
       dl[c].pc # "idle" =>
         dl[c].endDate = IF inTradingWindow(toEastern(now))
                         THEN getMostRecentMarketClose(now)
                         ELSE now

\* a download was requested on a Saturday at an hour of the weekday window
RequestedOnSaturdayNoon ==
  \E c \in Calls :
    /\ dl[c].pc # "idle"
    /\ getDay(toEastern(now)) = 6
    /\ getHours(toEastern(now)) = 12

\* the rows of the insert statement that this step executes, if any
statementOf(c) ==
  IF dl[c].pc = "saveInsert" /\ dl'[c] # dl[c]
  THEN slice(dl[c].formattedData, dl[c].i)
  ELSE <<>>
statementOfSync ==
  IF sync.pc = "insert" /\ sync' # sync
  THEN slice(sync.formattedData, sync.i)
  ELSE <<>>

\* an insert statement with these rows has run as a no-op on conflicts: all
\* its keys are stored, once each, and every row stored before still is
wroteAll(chunk) ==
  /\ \A k \in 1..Len(chunk) :
       Cardinality({r \in BagToSet(historicalData') : Key(r) = Key(chunk[k])}) = 1
  /\ \A r \in Rows : CopiesIn(r, historicalData') = CopiesIn(r, historicalData)

\* C22: when the bulk download and the incremental sync write the same key,
\* in any order of the download's read of the stored timestamps and the two
\* inserts, each insert statement completes: the conflicting row changes
\* nothing, the key is stored once, every other row of the statement is
\* stored, no stored row is lost and neither writer ends in an error.
RaceIsNoOp ==
  [][/\ \A c \in Calls :
          statementOf(c) # <<>> =>
            /\ wroteAll(statementOf(c))
            /\ dl'[c].hadError = dl[c].hadError
            /\ dl'[c].pc \in {"saveInsert", "fetch", "chunkDelay", "final"}
     /\ statementOfSync # <<>> =>
          /\ wroteAll(statementOfSync)
          /\ sync'.pc = "insert" \/ sync'.result = "synced"
    ]_vars

\* the download is about to insert a statement of two rows of which the
\* sync stored one after the download had read the stored timestamps
LostRace ==
  \E c \in Calls :
    /\ dl[c].pc = "saveInsert"
    /\ sync.result = "synced"
    /\ \E k \in 1..Len(dl[c].formattedData) :
         Key(dl[c].formattedData[k]) \in keysOf(historicalData)
    /\ \E k \in 1..Len(dl[c].formattedData) :
         Key(dl[c].formattedData[k]) \notin keysOf(historicalData)

\* poller p executes the step at position pc in this step
pollStep(p, pc) == poll[p].pc = pc /\ poll'[p] # poll[p]

\* job.expectedRecords || 1
expectedOr1(p) == IF poll[p].expectedOfJob = 0 THEN 1 ELSE poll[p].expectedOfJob

\* what a poll does apart from the percentage: the count is that of the
\* stored bars of the job's symbol and timeframe, the update writes the count
\* and leaves the status
countsAndWrites(p) ==
  /\ pollStep(p, "count") =>
       poll'[p].currentRecords =
         Cardinality({r \in Rows : /\ r.symbol = poll[p].symbolOfJob
                                   /\ r.timeframe = poll[p].timeframeOfJob})
  /\ pollStep(p, "update") =>
       /\ downloadJobs'[poll[p].jobId].currentRecords = poll[p].currentRecords
       /\ downloadJobs'[poll[p].jobId].status = downloadJobs[poll[p].jobId].status
  /\ pollStep(p, "complete") =>
       /\ downloadJobs'[poll[p].jobId].status = "completed"
       /\ downloadJobs'[poll[p].jobId].progressPercentage = 100

\* C23 (as stated): a progress poll of an in_progress job writes the count
\* of the stored bars of the job's symbol and timeframe to currentRecords,
\* writes min(100, current / expected * 100) to progressPercentage, and sets
\* the status to completed exactly when current >= expected; otherwise the
\* status stays as it is.
ProgressIsExactRatio ==
  [][\A p \in Pollers :
       /\ countsAndWrites(p)
       /\ pollStep(p, "update") =>
            /\ downloadJobs'[poll[p].jobId].progressPercentage * expectedOr1(p)
                 = Min(100 * expectedOr1(p), 100 * poll[p].currentRecords)
            /\ (poll'[p].pc = "complete")
                 <=> poll[p].currentRecords >= expectedOr1(p)
    ]_vars

\* C23 (amended): as above, with the percentage rounded to the nearest whole
\* number before it is capped at 100 and compared with 100.
ProgressIsRoundedRatio ==
  [][\A p \in Pollers :
       /\ countsAndWrites(p)
       /\ pollStep(p, "update") =>
            /\ downloadJobs'[poll[p].jobId].progressPercentage
                 = Min(100, RoundPct(poll[p].currentRecords, expectedOr1(p)))
            /\ (poll'[p].pc = "complete")
                 <=> \/ poll[p].currentRecords >= expectedOr1(p)
                     \/ RoundPct(poll[p].currentRecords, expectedOr1(p)) >= 100
    ]_vars

\* a poll wrote a percentage strictly between 0 and 100 that is not the
\* exact ratio
PartialProgressWritten ==
  \E j \in JobIds :
    /\ downloadJobs[j].status = "in_progress"
    /\ downloadJobs[j].progressPercentage > 0
    /\ downloadJobs[j].progressPercentage < 100
    /\ downloadJobs[j].progressPercentage * downloadJobs[j].expectedRecords
         # 100 * downloadJobs[j].currentRecords

\* call c is inside the loop body of partition number processed + 1
inBody(c) == dl[c].pc \in {"fetch", "fetchDelay", "saveSelect", "saveInsert"}

\* within one partition the bars are written after they were fetched
fetchThenWrite ==
  \A c \in Calls :
    /\ dl'[c].pc = "saveSelect" /\ dl[c].pc # "saveSelect"
         => dl[c].pc \in {"fetch", "fetchDelay"} /\ dl'[c].processed = dl[c].processed
    /\ dl'[c].pc = "saveInsert" /\ dl[c].pc # "saveInsert"
         => dl[c].pc = "saveSelect" /\ dl'[c].processed = dl[c].processed

\* C24 (as stated): in each partition of a bulk download the bars are
\* fetched, then written, and then the progress callback is called with the
\* label of the partition just completed and a percentage that counts it.
CallbackAfterChunk ==
  [][/\ fetchThenWrite
     /\ \A c \in Calls :
          dl'[c].processed = dl[c].processed + 1 =>
            dl'[c].callback = [progress |-> 100 * dl'[c].processed,
                               outOf |-> Len(dl[c].chunks),
                               label |-> dl[c].chunks[dl'[c].processed].label]
    ]_vars

\* C24 (amended): the progress callback is called at the top of each
\* iteration, before the fetch, with the label of the partition that starts
\* and a percentage that counts the partitions before it; then the bars are
\* fetched and then written; after the last partition the callback is called
\* with 100 and no label.
CallbackBeforeChunk ==
  /\ [](\A c \in Calls :
          /\ inBody(c) =>
               dl[c].callback = [progress |-> 100 * dl[c].processed,
                                 outOf |-> Len(dl[c].chunks),
                                 label |-> dl[c].chunks[dl[c].processed + 1].label]
          /\ dl[c].pc = "final" =>
               dl[c].callback = [progress |-> 100, outOf |-> 1, label |-> None])
  /\ [][fetchThenWrite]_vars

\* the bars of the second partition are about to be written
SecondChunkWrite ==
  \E c \in Calls :
    /\ dl[c].pc = "saveInsert"
    /\ dl[c].processed = 1
    /\ dl[c].callback.label = dl[c].chunks[2].label

\* C25: in a bulk download the first request of every partition after the
\* first is issued by the step that ends the wait between two partitions,
\* in the monthly and in the yearly strategy.
DelayBetweenChunks ==
  [][\A c \in Calls :
       (/\ dl'[c].pc = "fetch"
        /\ dl'[c].processed >= 1
        /\ dl'[c].processed # dl[c].processed \/ dl[c].pc = "chunkDelay")
       => dl[c].pc = "chunkDelay" /\ dl'[c].processed = dl[c].processed
    ]_vars

\* C26: within one fetchBars call, of the bulk download or of the
\* incremental sync, a request after the first is issued only by the step
\* that ends the wait after the previous response.
DelayBetweenRequests ==
  [][/\ \A c \in Calls :
          /\ dl'[c].requestCount > 1 /\ dl'[c].requestCount # dl[c].requestCount
               => /\ dl[c].pc = "fetchDelay"
                  /\ dl'[c].requestCount = dl[c].requestCount + 1
          /\ dl[c].pc = "fetch" /\ dl'[c].pc = "fetch"
               => dl'[c].requestCount <= dl[c].requestCount
                    \/ dl'[c].processed # dl[c].processed
     /\ sync'.requestCount > 1 /\ sync'.requestCount # sync.requestCount
          => /\ sync.pc = "fetchDelay"
             /\ sync'.requestCount = sync.requestCount + 1
    ]_vars

\* the download and the sync both wait for the response to a follow-up
\* request
FollowUpRequests ==
  /\ \E c \in Calls : dl[c].pc = "fetch" /\ dl[c].requestCount = 2
  /\ sync.pc = "fetch" /\ sync.requestCount = 2

\* C27: a stored bar stays as it is: no step of the bulk download or of the
\* incremental sync removes a row or changes its values, and an insert of a
\* bar whose key is stored with another close leaves the stored close.
BarsImmutable ==
  [][\A r \in Rows :
       /\ CopiesIn(r, historicalData') = CopiesIn(r, historicalData)
       /\ \A q \in BagToSet(historicalData') : Key(q) = Key(r) => q = r
    ]_vars

\* an insert statement is about to write a bar whose key is stored with
\* another close
RewriteWithOtherClose ==
  \/ \E c \in Calls :
       /\ dl[c].pc = "saveInsert"
       /\ \E k \in 1..Len(dl[c].formattedData) : \E r \in Rows :
            /\ Key(r) = Key(dl[c].formattedData[k])
            /\ r.close # dl[c].formattedData[k].close
  \/ /\ sync.pc = "insert"
     /\ \E k \in 1..Len(sync.formattedData) : \E r \in Rows :
          /\ Key(r) = Key(sync.formattedData[k])
          /\ r.close # sync.formattedData[k].close

\* C28: when fetchBars fails inside syncTickerData the request ends with the
\* provider's error: the table is the one the request started with, the
\* failed request is not sent again and the call does nothing further.
SyncFailureIsClean ==
  /\ [](sync.result = "providerError" =>
          /\ sync.pc = "idle"
          /\ historicalData \in SyncStores(getMostRecentMarketClose(now)))
  /\ [][/\ (sync.pc = "fetch" /\ sync' # sync) =>
             /\ sync'.requestCount <= sync.requestCount
             /\ historicalData' = historicalData
        /\ sync.result = "providerError" => sync' = sync
       ]_vars

\* a sync over the old daily bars ended with the provider's error
SyncFailed == sync.result = "providerError" /\ historicalData = PriorBars

\* bars per session of a timeframe
perSessionCount(timeframe) ==
  CASE timeframe = "1M"  -> 390
    [] timeframe = "5M"  -> 78
    [] timeframe = "15M" -> 26
    [] timeframe = "30M" -> 13
    [] timeframe = "1H"  -> 7
    [] timeframe = "1D"  -> 1

\* n = ceil(spanDays / 365 * 252)
isTradingDays(n, spanDays) ==
  /\ n * 365 >= spanDays * 252
  /\ (n - 1) * 365 < spanDays * 252

\* the whole days from startDate to endDate of a job
spanDaysOf(job) == (job.endDate - job.startDate) \div MinPerDay

\* C29: expectedRecords of every job is tradingDays * perSessionCount of its
\* timeframe with tradingDays = ceil(spanDays / 365 * 252); it is not
\* negative, and no shorter span gives a larger value.
ExpectedFromSpan ==
  \A j \in JobIds :
    /\ downloadJobs[j].expectedRecords >= 0
    /\ \E n \in 0..(spanDaysOf(downloadJobs[j]) + 1) :
         /\ isTradingDays(n, spanDaysOf(downloadJobs[j]))
         /\ downloadJobs[j].expectedRecords
              = n * perSessionCount(downloadJobs[j].timeframe)
    /\ \A d \in 0..spanDaysOf(downloadJobs[j]) :
         calculateExpectedRecords(downloadJobs[j].timeframe, 0, d * MinPerDay)
           <= downloadJobs[j].expectedRecords

\* a job of 30-minute bars over a year exists
JobOfHalfHourBars ==
  \E j \in JobIds :
    /\ downloadJobs[j].timeframe = "30M"
    /\ spanDaysOf(downloadJobs[j]) = 365
    /\ downloadJobs[j].expectedRecords = 252 * 13

\* C30: while the download that created a job still has a request in
\* flight, bars to write or partitions to fetch, the job is not completed:
\* a completed job sees no further fetch and no further write of its
\* download.
NoWorkAfterCompleted ==
  \A c \in Calls :
    (/\ dl[c].pc \in {"fetch", "fetchDelay", "saveSelect", "saveInsert", "chunkDelay"}
     /\ ~dl[c].isExisting)
    => jobOf(c).status # "completed"

\* C31: in every reachable state every completed job stands at 100 percent.
CompletedMeansHundred ==
  \A j \in JobIds :
    downloadJobs[j].status = "completed" => downloadJobs[j].progressPercentage = 100

\* C32: every job that was created reaches a terminal status in the end,
\* whichever fetches and writes of its download fail, and also when the final
\* update fails or the progress callback throws.
JobsTerminate ==
  \A j \in 1..Cardinality(Calls) :
    (j \in JobIds) ~> (j \in JobIds /\ downloadJobs[j].status \in {"completed", "failed"})

\* the range of the request a download has in flight
requestedChunk(c) == dl[c].chunks[dl[c].processed + 1]

\* C33: the range of every request of a bulk download lies inside the job's
\* range, day by day: it starts no earlier than startDate and ends no later
\* than endDate.
ChunkInsideRange ==
  \A c \in Calls :
    dl[c].pc = "fetch" =>
      /\ requestedChunk(c).from >= toISODate(dl[c].startDate)
      /\ requestedChunk(c).to <= toISODate(dl[c].endDate)

\* C34: the ranges of one bulk download are requested in increasing date
\* order, each starting the day after the one before it ended, the first
\* starting no later than startDate and the last ending on endDate's day, so
\* that no day of the job's range is left out or requested twice.
ChunksPartitionRange ==
  \A c \in Calls :
    dl[c].pc = "fetch" =>
      /\ requestedChunk(c).from <= requestedChunk(c).to
      /\ dl[c].processed = 0 => requestedChunk(c).from <= toISODate(dl[c].startDate)
      /\ dl[c].processed > 0 =>
            requestedChunk(c).from = dl[c].chunks[dl[c].processed].to + 1
      /\ dl[c].processed + 1 = Len(dl[c].chunks) =>
            requestedChunk(c).to >= toISODate(dl[c].endDate)

\* the last of four monthly ranges is requested
LastMonthRequested ==
  \E c \in Calls :
    /\ dl[c].pc = "fetch"
    /\ dl[c].monthly
    /\ dl[c].processed = 3
    /\ Len(dl[c].chunks) = 4

\* C35: when needsDataSync is true for a symbol with stored bars,
\* syncTickerData sends a request to the provider: it does not return
\* "already up to date" while needsDataSync is still true.
StaleSyncFetches ==
  [][(/\ sync.pc = "latest"
      /\ getLatestDataTimestamp(sync.symbol) # None
      /\ needsDataSync(getLatestDataTimestamp(sync.symbol))
      /\ sync' # sync)
     => (/\ sync'.pc = "fetch"
         /\ sync'.requestCount = 1
         /\ sync'.result # "upToDate")
    ]_vars

\* C36: when the request cap stops fetchBars while the last response still
\* carried a next_url, the bars accumulated so far are returned as a normal
\* result: no error is recorded, no job changes, and the caller goes on to
\* write them (or, with no bars at all, to the next range).
CapReturnsPartial ==
  [][\A c \in Calls :
       (/\ dl[c].pc = "fetchDelay"
        /\ dl[c].requestCount = maxRequests
        /\ dl'[c] # dl[c])
       => /\ dl'[c].hadError = dl[c].hadError
          /\ downloadJobs' = downloadJobs
          /\ historicalData' = historicalData
          /\ IF Len(dl[c].allResults) > 0
             THEN dl'[c].pc = "saveSelect" /\ dl'[c].allResults = dl[c].allResults
             ELSE dl'[c].pc = "final"
    ]_vars

\* the cap is reached under a next_url with bars accumulated
CapReachedWithBars ==
  \E c \in Calls :
    /\ dl[c].pc = "fetchDelay"
    /\ dl[c].requestCount = maxRequests
    /\ Len(dl[c].allResults) > 0
    /\ ~dl[c].hadError

freshOf(c) ==
  {k \in 1..Len(dl[c].allResults) :
     dl[c].allResults[k].t \notin timestampsOf(dl[c].symbol, dl[c].timeframe)}

\* C38: saveIntelligentData drops exactly the candles whose timestamp is
\* stored under the same (symbol, timeframe): every other candle is formatted
\* and is in the table after the insert, whatever is stored at its timestamp
\* under another timeframe or another symbol.
FilterPerKey ==
  /\ [][\A c \in Calls :
         (dl[c].pc = "saveSelect" /\ dl'[c] # dl[c])
         => IF freshOf(c) = {}
            THEN dl'[c].pc # "saveInsert" /\ historicalData' = historicalData
            ELSE /\ dl'[c].pc = "saveInsert"
                 /\ Len(dl'[c].formattedData) = Cardinality(freshOf(c))
                 /\ {dl'[c].formattedData[k].timestamp :
                       k \in 1..Len(dl'[c].formattedData)}
                     = {dl[c].allResults[k].t : k \in freshOf(c)}
      ]_vars
  /\ [][\A c \in Calls :
         (dl[c].pc = "saveInsert" /\ dl'[c] # dl[c])
         => \A k \in 1..Len(dl[c].formattedData) :
              dl[c].formattedData[k] \in BagToSet(historicalData')
      ]_vars

\* a bar is about to be inserted whose timestamp is stored for the same
\* symbol under the other timeframe and for another symbol under the same one
SameTimestampOtherKeys ==
  \E c \in Calls :
    /\ dl[c].pc = "saveInsert"
    /\ \E k \in 1..Len(dl[c].formattedData) :
         /\ \E r \in Rows : /\ r.timestamp = dl[c].formattedData[k].timestamp
                             /\ r.symbol = dl[c].symbol
                             /\ r.timeframe # dl[c].timeframe
         /\ \E r \in Rows : /\ r.timestamp = dl[c].formattedData[k].timestamp
                             /\ r.symbol # dl[c].symbol
                             /\ r.timeframe = dl[c].timeframe

====
